---- MODULE Spec2Model ----
(***************************************************************************)
(* A model of mist_exporter.py: one run of main (fetch sites, fetch the    *)
(* device stats of every matched site, build the device metrics, fetch    *)
(* the edge stats, build the edge metrics, print), with the path          *)
(* resolver, the value normalizer, the metric formatter and the two       *)
(* entity metric builders as operators computed the way the code computes *)
(* them.                                                                   *)
(***************************************************************************)
EXTENDS Integers, Sequences, FiniteSets, TLC

(***************************************************************************)
(* Bounds of the model.                                                    *)
(***************************************************************************)
MaxSites == 2
MaxDevices == 2
MaxEdges == 2

(***************************************************************************)
(* JSON values as returned by response.json(): a tagged union.             *)
(***************************************************************************)
JStr(s) == [t |-> "str", s |-> s]
JNum(n) == [t |-> "num", n |-> n]
JBool(b) == [t |-> "bool", b |-> b]
JNull == [t |-> "null"]
JDict(f) == [t |-> "dict", d |-> f]
JList(l) == [t |-> "list", l |-> l]

(***************************************************************************)
(* Python values held in a metric item: a string or an int.                *)
(***************************************************************************)
PyStr(s) == [t |-> "str", s |-> s]
PyInt(n) == [t |-> "int", n |-> n]

(***************************************************************************)
(* str.lower() and str.upper() on the strings that occur in the model.     *)
(* A string without cased letters in the listed form is its own image.     *)
(***************************************************************************)
Lower(s) ==
    CASE s = "False" -> "false"
      [] s = "True" -> "true"
      [] s = "None" -> "none"
      [] s = "Ap1" -> "ap1"
      [] s = "DEV1" -> "dev1"
      [] s = "AP3" -> "ap3"
      [] s = "Edge1" -> "edge1"
      [] s = "EDGE2" -> "edge2"
      [] s = "Connected" -> "connected"
      [] s = "HQ" -> "hq"
      [] s = "Lab" -> "lab"
      [] s = "FullyRedundant" -> "fullyredundant"
      [] s = "FULLYREDUNDANT" -> "fullyredundant"
      [] s = "Degraded" -> "degraded"
      [] s = "AP43" -> "ap43"
      [] s = "ME-X1" -> "me-x1"
      [] s = "A1" -> "a1"
      [] s = "SN1" -> "sn1"
      [] s = "ifName" -> "ifname"
      [] OTHER -> s

Upper(s) ==
    CASE s = "false" -> "FALSE"
      [] s = "False" -> "FALSE"
      [] s = "ap1" -> "AP1"
      [] s = "dev1" -> "DEV1"
      [] s = "ap3" -> "AP3"
      [] s = "edge1" -> "EDGE1"
      [] s = "edge2" -> "EDGE2"
      [] s = "none" -> "NONE"
      [] OTHER -> s

(***************************************************************************)
(* str(x) of a JSON value.                                                 *)
(***************************************************************************)
Str(j) ==
    CASE j.t = "str" -> j.s
      [] j.t = "num" -> ToString(j.n)
      [] j.t = "bool" -> (IF j.b THEN "True" ELSE "False")
      [] j.t = "null" -> "None"
      [] j.t = "dict" -> "{...}"
      [] j.t = "list" -> "[...]"

(***************************************************************************)
(* get_value_from_path: the result is [exc |-> "none", v |-> string] or    *)
(* [exc |-> "TypeError"] when the exception leaves the function.  Only     *)
(* KeyError is caught; subscripting anything but a mapping with a string   *)
(* key raises TypeError.                                                   *)
(***************************************************************************)
NotFound == "False"

Returned(v) == [exc |-> "none", v |-> v]
Raised(e) == [exc |-> e]

Tail2(parts) == SubSeq(parts, 2, Len(parts))

LeafStringRaw(x) == Str(x)

LeafString(x) == Lower(Str(x))

RECURSIVE get_value_from_path(_, _)
get_value_from_path(dictionary, parts) ==
    IF dictionary.t # "dict"
    THEN Raised("TypeError")
    ELSE IF parts[1] \notin DOMAIN dictionary.d
         THEN Returned(NotFound)
         ELSE IF Len(parts) > 1
              THEN get_value_from_path(dictionary.d[parts[1]], Tail2(parts))
              ELSE Returned(LeafString(dictionary.d[parts[1]]))

(***************************************************************************)
(* map_string_value_to_int                                                 *)
(***************************************************************************)
map_string_value_to_int(metric_value) ==
    IF metric_value.t # "str"
    THEN metric_value
    ELSE IF metric_value.s \in {"connected", "false", "FullyRedundant"}
         THEN PyInt(0)
         ELSE IF metric_value.s \in {"disconnected", "true"}
              THEN PyInt(1)
              ELSE IF metric_value.s \in {"upgrading"}
                   THEN PyInt(2)
                   ELSE IF metric_value.s \in {"restarting"}
                        THEN PyInt(3)
                        ELSE metric_value

(***************************************************************************)
(* Label dictionaries are sequences of <<key, value>> in insertion order.  *)
(* Merge(a, b) is {**a, **b}: a key of b already in a keeps its place and  *)
(* takes b's value, a new key is appended.                                 *)
(***************************************************************************)
Keys(labels) == {labels[i][1] : i \in 1..Len(labels)}

Put(labels, kv) ==
    IF kv[1] \in Keys(labels)
    THEN [i \in 1..Len(labels) |->
             IF labels[i][1] = kv[1] THEN kv ELSE labels[i]]
    ELSE Append(labels, kv)

RECURSIVE Merge(_, _)
Merge(a, b) ==
    IF b = <<>> THEN a ELSE Merge(Put(a, Head(b)), Tail(b))

(***************************************************************************)
(* format_metric: name{k1="v1", k2="v2"} value, kept as its parts.  The    *)
(* name and the label keys are lowercased, the value is rendered by the    *)
(* f-string.                                                               *)
(***************************************************************************)
Render(value) == IF value.t = "int" THEN ToString(value.n) ELSE value.s

format_metric(metric_name, labeldict, value) ==
    [kind |-> "metric",
     name |-> Lower(metric_name),
     labels |-> [i \in 1..Len(labeldict) |->
                    <<Lower(labeldict[i][1]), labeldict[i][2]>>],
     value |-> Render(value)]

RawLine(text) == [kind |-> "raw", name |-> text, labels |-> <<>>, value |-> ""]

(***************************************************************************)
(* The metric schemas: (metric name, field path, extra labels) in          *)
(* declared order.  A path is the dotted string already split on ".".      *)
(* An edge entry of kind "psu" or "fan" takes its value from               *)
(* get_psu_redundancy / get_fan_redundancy and the resolved state as its   *)
(* "redundancy" label.                                                     *)
(***************************************************************************)
IsNotFound(value) == value.t = "str" /\ value.s = NotFound

Entry(name, path, labels) ==
    [name |-> name, kind |-> "path", path |-> path, labels |-> labels]

DeviceSchema ==
    << Entry("mist_device_uptime_seconds", <<"uptime">>, <<>>),
       Entry("mist_device_status", <<"status">>, <<>>),
       Entry("mist_device_power_constrained", <<"power_constrained">>, <<>>),
       Entry("mist_device_last_seen_seconds", <<"last_seen">>, <<>>),
       Entry("mist_device_num_clients", <<"num_clients">>, <<>>),
       Entry("mist_device_port_stat_tx_bytes",
             <<"port_stat", "eth0", "tx_bytes">>, << <<"ifName", "eth0">> >>),
       Entry("mist_device_port_stat_rx_bytes",
             <<"port_stat", "eth0", "rx_bytes">>, << <<"ifName", "eth0">> >>),
       Entry("mist_device_radio_stat_util_all",
             <<"radio_stat", "band_6", "util_all">>, << <<"band", "6">> >>),
       Entry("mist_device_radio_stat_util_all",
             <<"radio_stat", "band_5", "util_all">>, << <<"band", "5">> >>),
       Entry("mist_device_radio_stat_util_all",
             <<"radio_stat", "band_24", "util_all">>, << <<"band", "24">> >>) >>

DeviceDetails ==
    << <<"serial", <<"serial">> >>,
       <<"model", <<"model">> >>,
       <<"hw_rev", <<"hw_rev">> >> >>

PSPath == <<"sensor_stat", "redundancies", "PS", "state">>
FanPath == <<"sensor_stat", "redundancies", "Fan", "state">>

EdgeSchema ==
    << Entry("mist_edge_uptime_seconds", <<"uptime">>, <<>>),
       Entry("mist_edge_status", <<"status">>, <<>>),
       Entry("mist_edge_cpu_usage_pct", <<"cpu_stat", "usage">>, <<>>),
       Entry("mist_edge_memory_usage_pct", <<"memory_stat", "usage">>, <<>>),
       Entry("mist_edge_temperatures_degree",
             <<"sensor_stat", "temperatures", "CPU1", "degree">>,
             << <<"component", "cpu1">> >>),
       Entry("mist_edge_temperatures_degree",
             <<"sensor_stat", "temperatures", "CPU2", "degree">>,
             << <<"component", "cpu2">> >>),
       Entry("mist_edge_temperatures_degree",
             <<"sensor_stat", "temperatures", "Exhaust", "degree">>,
             << <<"component", "exhaust">> >>),
       Entry("mist_edge_temperatures_degree",
             <<"sensor_stat", "temperatures", "Inlet", "degree">>,
             << <<"component", "inlet">> >>),
       [name |-> "mist_edge_psu_redundancies", kind |-> "psu",
        path |-> PSPath, labels |-> <<>>],
       [name |-> "mist_edge_fan_redundancies", kind |-> "fan",
        path |-> FanPath, labels |-> <<>>] >>

EdgeDetails ==
    << <<"serial", <<"serial_no">> >>,
       <<"model", <<"model">> >> >>

(***************************************************************************)
(* get_psu_redundancy, get_fan_redundancy                                  *)
(***************************************************************************)
get_psu_redundancy(device_json) ==
    LET value == get_value_from_path(device_json, PSPath)
    IN  IF value.exc # "none" THEN value
        ELSE IF value.v = "fullyredundant"
             THEN Returned(PyInt(0))
             ELSE Returned(PyInt(1))

get_fan_redundancy(device_json) ==
    LET value == get_value_from_path(device_json, FanPath)
    IN  IF value.exc # "none" THEN value
        ELSE IF value.v = "fullyredundant"
             THEN Returned(PyInt(0))
             ELSE Returned(PyInt(1))

(***************************************************************************)
(* The metric_list of one entity: per schema entry the item                *)
(* [name, value, labels], each field the result of its call.  The list     *)
(* literal evaluates every call, so one raising call fails the whole       *)
(* entity.                                                                 *)
(***************************************************************************)
ItemValue(device, e) ==
    CASE e.kind = "path" ->
            LET r == get_value_from_path(device, e.path)
            IN  IF r.exc # "none" THEN r ELSE Returned(PyStr(r.v))
      [] e.kind = "psu" -> get_psu_redundancy(device)
      [] e.kind = "fan" -> get_fan_redundancy(device)

ItemLabels(device, e) ==
    IF e.kind = "path"
    THEN Returned(e.labels)
    ELSE LET r == get_value_from_path(device, e.path)
         IN  IF r.exc # "none" THEN r
             ELSE Returned(<< <<"redundancy", r.v>> >>)

EntityRaises(device, schema, details) ==
    \/ \E i \in 1..Len(schema) :
          \/ ItemValue(device, schema[i]).exc # "none"
          \/ ItemLabels(device, schema[i]).exc # "none"
    \/ \E i \in 1..Len(details) :
          get_value_from_path(device, details[i][2]).exc # "none"

metric_list_found_only(device, schema) ==
    SelectSeq([i \in 1..Len(schema) |->
                  [name |-> schema[i].name,
                   value |-> ItemValue(device, schema[i]).v,
                   labels |-> ItemLabels(device, schema[i]).v]],
              LAMBDA item : ~IsNotFound(item.value))

metric_list(device, schema) ==
    [i \in 1..Len(schema) |->
        [name |-> schema[i].name,
         value |-> ItemValue(device, schema[i]).v,
         labels |-> ItemLabels(device, schema[i]).v]]

details_labels_dict(device, details) ==
    [i \in 1..Len(details) |->
        <<details[i][1], get_value_from_path(device, details[i][2]).v>>]


(***************************************************************************)
(* The line of one metric item.  The device builder merges the common      *)
(* label with the item's labels; the edge builder adds an "error" label    *)
(* when the value is the not-found marker.                                 *)
(***************************************************************************)
DeviceItemLineWithError(all_labels_dict, item) ==
    LET found == ~IsNotFound(item.value)
        value == IF found
                 THEN map_string_value_to_int(item.value)
                 ELSE PyInt(0)
        labels_merged ==
            Merge(Merge(all_labels_dict, item.labels),
                  IF found THEN <<>> ELSE << <<"error", "Metric not found">> >>)
    IN  format_metric(item.name, labels_merged, value)

DeviceItemLine(all_labels_dict, item) ==
    LET labels_merged == Merge(all_labels_dict, item.labels)
        value == IF ~IsNotFound(item.value)
                 THEN map_string_value_to_int(item.value)
                 ELSE PyInt(0)
    IN  format_metric(item.name, labels_merged, value)

EdgeItemLine(all_labels_dict, item) ==
    LET found == ~IsNotFound(item.value)
        value == IF found
                 THEN map_string_value_to_int(item.value)
                 ELSE PyInt(0)
        metric_not_found_dict ==
            IF found THEN <<>> ELSE << <<"error", "Metric not found">> >>
        labels_merged ==
            Merge(Merge(all_labels_dict, item.labels), metric_not_found_dict)
    IN  format_metric(item.name, labels_merged, value)

(***************************************************************************)
(* One pass of the loop body of a builder: the lines appended for one      *)
(* entity, <<>> for a skipped one, or the exception that leaves the        *)
(* builder.  `not device_name` holds of the empty string only.             *)
(***************************************************************************)
Skips(device_name) == device_name = ""

DeviceEntityLines(device) ==
    LET device_name == get_value_from_path(device, <<"name">>)
    IN  IF device_name.exc # "none" THEN device_name
        ELSE IF Skips(device_name.v) THEN Returned(<<>>)
        ELSE IF EntityRaises(device, DeviceSchema, DeviceDetails)
             THEN Raised("TypeError")
        ELSE LET items == metric_list(device, DeviceSchema)
                 all_labels_dict == << <<"hostname", Upper(device_name.v)>> >>
                 info == format_metric("mist_device_info",
                            Merge(details_labels_dict(device, DeviceDetails),
                                  all_labels_dict),
                            PyInt(1))
             IN  Returned(<<info>> \o
                     [i \in 1..Len(items) |->
                         DeviceItemLine(all_labels_dict, items[i])])

EdgeEntityLines(device) ==
    LET device_name == get_value_from_path(device, <<"name">>)
    IN  IF device_name.exc # "none" THEN device_name
        ELSE IF Skips(device_name.v) THEN Returned(<<>>)
        ELSE IF EntityRaises(device, EdgeSchema, EdgeDetails)
             THEN Raised("TypeError")
        ELSE LET items == metric_list(device, EdgeSchema)
                 all_labels_dict == << <<"hostname", Upper(device_name.v)>> >>
                 info == format_metric("mist_edge_info",
                            Merge(details_labels_dict(device, EdgeDetails),
                                  all_labels_dict),
                            PyInt(1))
             IN  Returned(<<info>> \o
                     [i \in 1..Len(items) |->
                         EdgeItemLine(all_labels_dict, items[i])])

(***************************************************************************)
(* The builders.  get_device_metrics starts its list with the HELP         *)
(* comment; both count len(metrics_list) before appending the two summary  *)
(* lines.  build_edge_metrics is get_edge_metrics after its fetch.         *)
(***************************************************************************)
HelpLine == RawLine("# HELP mist_device Mist device metrics")

RECURSIVE DeviceLoop(_, _)
DeviceLoop(devs, metrics_list) ==
    IF devs = <<>> THEN Returned(metrics_list)
    ELSE LET r == DeviceEntityLines(Head(devs))
         IN  IF r.exc # "none" THEN r
             ELSE DeviceLoop(Tail(devs), metrics_list \o r.v)

RECURSIVE EdgeLoop(_, _)
EdgeLoop(devs, metrics_list) ==
    IF devs = <<>> THEN Returned(metrics_list)
    ELSE LET r == EdgeEntityLines(Head(devs))
         IN  IF r.exc # "none" THEN r
             ELSE EdgeLoop(Tail(devs), metrics_list \o r.v)

MetricCount(metrics_list) == Len(metrics_list)

get_device_metrics(devs) ==
    LET r == DeviceLoop(devs, <<HelpLine>>)
    IN  IF r.exc # "none" THEN r
        ELSE Returned(r.v \o
               << format_metric("mist_device_total_count", <<>>,
                                PyInt(Len(devs))),
                  format_metric("mist_device_metric_total_count", <<>>,
                                PyInt(MetricCount(r.v))) >>)

build_edge_metrics(devs) ==
    LET r == EdgeLoop(devs, <<>>)
    IN  IF r.exc # "none" THEN r
        ELSE Returned(r.v \o
               << format_metric("mist_edge_total_count", <<>>,
                                PyInt(Len(devs))),
                  format_metric("mist_edge_metric_total_count", <<>>,
                                PyInt(MetricCount(r.v))) >>)

(***************************************************************************)
(* The records the API answers with.                                       *)
(***************************************************************************)
Without(f, keys) == [k \in (DOMAIN f) \ keys |-> f[k]]

DevFullFields ==
    "name" :> JStr("Ap1") @@ "uptime" :> JNum(100)
    @@ "status" :> JStr("connected") @@ "power_constrained" :> JBool(FALSE)
    @@ "last_seen" :> JNum(5) @@ "num_clients" :> JNum(3)
    @@ "port_stat" :> JDict("eth0" :> JDict("tx_bytes" :> JNum(7)
                                            @@ "rx_bytes" :> JNum(8)))
    @@ "radio_stat" :> JDict("band_6" :> JDict("util_all" :> JNum(1))
                             @@ "band_5" :> JDict("util_all" :> JNum(2))
                             @@ "band_24" :> JDict("util_all" :> JNum(3)))
    @@ "serial" :> JStr("SN1") @@ "model" :> JStr("AP43")
    @@ "hw_rev" :> JStr("A1")

DevFull == JDict(DevFullFields)
DevNoName == JDict(Without(DevFullFields, {"name"}))
DevEmptyName == JDict(("name" :> JStr("")) @@ DevFullFields)
DevNullPort == JDict(("name" :> JStr("AP3") @@ "port_stat" :> JNull)
                     @@ DevFullFields)
DevSparse ==
    JDict("name" :> JStr("DEV1") @@ "status" :> JStr("disconnected")
          @@ "power_constrained" :> JBool(TRUE)
          @@ "radio_stat" :> JDict("band_5" :> JDict("util_all" :> JNum(9))))

DeviceRecords ==
    <<DevFull, DevSparse, DevNoName, DevEmptyName, DevNullPort>>

Degree(n) == JDict("degree" :> JNum(n))
State(s) == JDict("state" :> JStr(s))

EdgeFullFields ==
    "name" :> JStr("Edge1") @@ "uptime" :> JNum(200)
    @@ "status" :> JStr("connected")
    @@ "cpu_stat" :> JDict("usage" :> JNum(10))
    @@ "memory_stat" :> JDict("usage" :> JNum(20))
    @@ "sensor_stat" :>
         JDict("temperatures" :> JDict("CPU1" :> Degree(40)
                                       @@ "CPU2" :> Degree(41)
                                       @@ "Exhaust" :> Degree(30)
                                       @@ "Inlet" :> Degree(20))
               @@ "redundancies" :> JDict("PS" :> State("FullyRedundant")
                                          @@ "Fan" :> State("Degraded")))
    @@ "serial_no" :> JStr("SN1") @@ "model" :> JStr("ME-X1")

EdgeFull == JDict(EdgeFullFields)
EdgeBare == JDict("name" :> JStr("EDGE2") @@ "uptime" :> JNum(1))
EdgeNoName == JDict(Without(EdgeFullFields, {"name"}))
EdgeEmptyName == JDict(("name" :> JStr("")) @@ EdgeFullFields)
EdgeNullSensor == JDict(("sensor_stat" :> JNull) @@ EdgeFullFields)

EdgeRecords ==
    <<EdgeFull, EdgeBare, EdgeNoName, EdgeEmptyName, EdgeNullSensor>>

SiteHQ == JDict("id" :> JStr("site1") @@ "name" :> JStr("HQ"))
SiteLab == JDict("id" :> JStr("site2") @@ "name" :> JStr("Lab"))
SiteNoName == JDict("id" :> JStr("site3"))

SiteRecords == <<SiteHQ, SiteLab, SiteNoName>>

(***************************************************************************)
(* --site_name_filter as the set of site names its regex matches:          *)
(* the default ".*" and a filter that matches one site.                    *)
(***************************************************************************)
SiteFilters == {{"HQ", "Lab"}, {"HQ"}}

SeqsUpTo(S, n) == UNION {[1..k -> S] : k \in 0..n}

(***************************************************************************)
(* What one GET can come back with: the transport raises, or a response    *)
(* with a status code and a body that parses as a JSON list or does not.   *)
(* ResponseShapes(choices) draws the list of a parsable body by the        *)
(* positions of its records in the list of records of its kind; an         *)
(* organisation's sites are distinct, device and edge lists are any.       *)
(***************************************************************************)
StatusCodes == {200, 404}
Transport == [kind |-> "transport"]
Unparsable == [ok |-> FALSE]
Parsed(l) == [ok |-> TRUE, json |-> l]
Http(status_code, body) ==
    [kind |-> "http", status_code |-> status_code, body |-> body]

Choices(records, n) == SeqsUpTo(1..Len(records), n)
Pick(records, ix) == [i \in 1..Len(ix) |-> records[ix[i]]]

Distinct(choices) ==
    {ix \in choices : \A i, j \in 1..Len(ix) : i < j => ix[i] < ix[j]}

ResponseShapes(choices) ==
    {<<"transport", 0, <<>> >>} \cup
    {<<"unparsable", c, <<>> >> : c \in StatusCodes} \cup
    {<<"parsed", c, ix>> : c \in StatusCodes, ix \in choices}

Response(records, shape) ==
    CASE shape[1] = "transport" -> Transport
      [] shape[1] = "unparsable" -> Http(shape[2], Unparsable)
      [] shape[1] = "parsed" -> Http(shape[2], Parsed(Pick(records, shape[3])))

(***************************************************************************)
(* A status check that lets every status code pass.                        *)
(***************************************************************************)
test_status_code_any(response) == "none"

(***************************************************************************)
(* test_status_code: the exception it raises, "none" when it returns.      *)
(***************************************************************************)
test_status_code(response) ==
    IF response.status_code # 200 THEN "Exception" ELSE "none"

(***************************************************************************)
(* The outcome of req.get, test_status_code and response.json() in this    *)
(* order: the exception that leaves the fetch or the parsed list.          *)
(***************************************************************************)
Fetch(response) ==
    IF response.kind = "transport" THEN Raised("ConnectionError")
    ELSE IF test_status_code(response) # "none"
         THEN Raised(test_status_code(response))
    ELSE IF ~response.body.ok THEN Raised("JSONDecodeError")
    ELSE Returned(response.body.json)

ApiFailed(response) ==
    \/ response.kind = "transport"
    \/ response.status_code # 200
    \/ ~response.body.ok

(***************************************************************************)
(* The state of one run of main.                                           *)
(*   pc                  the statement main is at                          *)
(*   stages              the statements main has been at, in order         *)
(*   site_name_filter    the names the --site_name_filter regex matches    *)
(*   sites, siteids      the filtered sites and their ids                  *)
(*   next_site           the position of get_devices in siteids            *)
(*   devices             json_list of get_devices                          *)
(*   device_metrics_dict the list get_device_metrics returned              *)
(*   edge_devices        the list the edge-stats call returned             *)
(*   edge_metrics_dict   the list get_edge_metrics returned                *)
(*   stdout              the lines printed                                 *)
(*   exc                 the exception the except clause caught            *)
(*   failed_calls        the API calls that came back failed               *)
(* and of one call of get_value_from_path on its own:                      *)
(*   dictionary, parts   its arguments                                     *)
(*   resolved            its outcome                                       *)
(***************************************************************************)
VARIABLES pc, stages, site_name_filter, sites, siteids, next_site, devices,
          device_metrics_dict, edge_devices, edge_metrics_dict, stdout, exc,
          failed_calls, dictionary, parts, resolved

mainVars == <<pc, stages, site_name_filter, sites, siteids, next_site,
              devices, device_metrics_dict, edge_devices, edge_metrics_dict,
              stdout, exc, failed_calls>>
resolverVars == <<dictionary, parts, resolved>>
vars == <<mainVars, resolverVars>>

Unset == [exc |-> "unset"]

StatusLine(n) == RawLine(IF n = 1 THEN "mist_exporter_status 1"
                                  ELSE "mist_exporter_status 0")

Init ==
    /\ pc = "get_sites"
    /\ stages = <<"get_sites">>
    /\ site_name_filter \in SiteFilters
    /\ sites = <<>>
    /\ siteids = <<>>
    /\ next_site = 1
    /\ devices = <<>>
    /\ device_metrics_dict = <<>>
    /\ edge_devices = <<>>
    /\ edge_metrics_dict = <<>>
    /\ stdout = <<>>
    /\ exc = "none"
    /\ failed_calls = {}
    /\ dictionary = JNull
    /\ parts = <<>>
    /\ resolved = Unset

(***************************************************************************)
(* An order in which the edge metrics come before the device metrics.      *)
(***************************************************************************)
NextStatementEdgesFirst(p) ==
    CASE p = "get_sites" -> "get_devices"
      [] p = "get_devices" -> "get_edge_metrics"
      [] p = "get_edge_metrics" -> "build_edge_metrics"
      [] p = "build_edge_metrics" -> "get_device_metrics"
      [] p = "get_device_metrics" -> "print"
      [] p = "print" -> "done"

(***************************************************************************)
(* The order of the statements of the try block.                           *)
(***************************************************************************)
NextStatement(p) ==
    CASE p = "get_sites" -> "get_devices"
      [] p = "get_devices" -> "get_device_metrics"
      [] p = "get_device_metrics" -> "get_edge_metrics"
      [] p = "get_edge_metrics" -> "build_edge_metrics"
      [] p = "build_edge_metrics" -> "print"
      [] p = "print" -> "done"

Goto(p) ==
    /\ pc' = p
    /\ stages' = Append(stages, p)

(***************************************************************************)
(* except Exception: print the failure status line.                        *)
(***************************************************************************)
ExceptOutput(out) == Append(out, StatusLine(0))

Except(e) ==
    /\ Goto("failed")
    /\ exc' = e
    /\ stdout' = ExceptOutput(stdout)

(***************************************************************************)
(* get_sites and the siteids comprehension.  site["name"] and x["id"] are  *)
(* plain subscripts: a missing key raises KeyError.                        *)
(***************************************************************************)
Subscript(record, key) ==
    IF record.t # "dict" THEN Raised("TypeError")
    ELSE IF key \notin DOMAIN record.d THEN Raised("KeyError")
    ELSE Returned(record.d[key])

RECURSIVE FilterSites(_, _)
FilterSites(all, site_filter) ==
    IF all = <<>> THEN Returned(<<>>)
    ELSE LET name == Subscript(Head(all), "name")
             rest == FilterSites(Tail(all), site_filter)
         IN  IF name.exc # "none" THEN name
             ELSE IF rest.exc # "none" THEN rest
             ELSE IF name.v.s \in site_filter
                  THEN Returned(<<Head(all)>> \o rest.v)
                  ELSE rest

get_sites(response, site_filter) ==
    LET r == Fetch(response)
    IN  IF r.exc # "none" THEN r ELSE FilterSites(r.v, site_filter)

SiteIds(filtered) == [i \in 1..Len(filtered) |-> filtered[i].d["id"].s]

GetSites ==
    /\ pc = "get_sites"
    /\ \E shape \in ResponseShapes(Distinct(Choices(SiteRecords, MaxSites))) :
          LET response == Response(SiteRecords, shape)
              r == get_sites(response, site_name_filter)
          IN  /\ failed_calls' = IF ApiFailed(response)
                                 THEN failed_calls \cup {"sites"}
                                 ELSE failed_calls
              /\ IF r.exc # "none"
                 THEN /\ Except(r.exc)
                      /\ UNCHANGED <<sites, siteids>>
                 ELSE /\ sites' = r.v
                      /\ siteids' = SiteIds(r.v)
                      /\ Goto(NextStatement(pc))
                      /\ UNCHANGED <<exc, stdout>>
    /\ UNCHANGED <<site_name_filter, next_site, devices, device_metrics_dict,
                   edge_devices, edge_metrics_dict, resolverVars>>

(***************************************************************************)
(* get_devices: one pass of its loop fetches the device stats of one site  *)
(* and appends them to json_list; after the last site it returns.          *)
(***************************************************************************)
GetDevicesOfSite ==
    /\ pc = "get_devices"
    /\ next_site <= Len(siteids)
    /\ \E shape \in ResponseShapes(Choices(DeviceRecords,
                                             MaxDevices - Len(devices))) :
          LET response == Response(DeviceRecords, shape)
              r == Fetch(response)
          IN  /\ failed_calls' = IF ApiFailed(response)
                                 THEN failed_calls \cup {"devices"}
                                 ELSE failed_calls
              /\ IF r.exc # "none"
                 THEN /\ Except(r.exc)
                      /\ UNCHANGED <<devices, next_site>>
                 ELSE /\ devices' = devices \o r.v
                      /\ next_site' = next_site + 1
                      /\ UNCHANGED <<pc, stages, exc, stdout>>
    /\ UNCHANGED <<site_name_filter, sites, siteids, device_metrics_dict,
                   edge_devices, edge_metrics_dict, resolverVars>>

GetDevicesReturn ==
    /\ pc = "get_devices"
    /\ next_site > Len(siteids)
    /\ Goto(NextStatement(pc))
    /\ UNCHANGED <<site_name_filter, sites, siteids, next_site, devices,
                   device_metrics_dict, edge_devices, edge_metrics_dict,
                   stdout, exc, failed_calls, resolverVars>>

(***************************************************************************)
(* device_metrics_dict = get_device_metrics(devices)                       *)
(***************************************************************************)
GetDeviceMetrics ==
    /\ pc = "get_device_metrics"
    /\ LET r == get_device_metrics(devices)
       IN  IF r.exc # "none"
           THEN /\ Except(r.exc)
                /\ UNCHANGED device_metrics_dict
           ELSE /\ device_metrics_dict' = r.v
                /\ Goto(NextStatement(pc))
                /\ UNCHANGED <<exc, stdout>>
    /\ UNCHANGED <<site_name_filter, sites, siteids, next_site, devices,
                   edge_devices, edge_metrics_dict, failed_calls,
                   resolverVars>>

(***************************************************************************)
(* get_edge_metrics: the edge-stats call, then the building of the lines.  *)
(***************************************************************************)
GetEdgeStats ==
    /\ pc = "get_edge_metrics"
    /\ \E shape \in ResponseShapes(Choices(EdgeRecords, MaxEdges)) :
          LET response == Response(EdgeRecords, shape)
              r == Fetch(response)
          IN  /\ failed_calls' = IF ApiFailed(response)
                                 THEN failed_calls \cup {"edges"}
                                 ELSE failed_calls
              /\ IF r.exc # "none"
                 THEN /\ Except(r.exc)
                      /\ UNCHANGED edge_devices
                 ELSE /\ edge_devices' = r.v
                      /\ Goto(NextStatement(pc))
                      /\ UNCHANGED <<exc, stdout>>
    /\ UNCHANGED <<site_name_filter, sites, siteids, next_site, devices,
                   device_metrics_dict, edge_metrics_dict, resolverVars>>

BuildEdgeMetrics ==
    /\ pc = "build_edge_metrics"
    /\ LET r == build_edge_metrics(edge_devices)
       IN  IF r.exc # "none"
           THEN /\ Except(r.exc)
                /\ UNCHANGED edge_metrics_dict
           ELSE /\ edge_metrics_dict' = r.v
                /\ Goto(NextStatement(pc))
                /\ UNCHANGED <<exc, stdout>>
    /\ UNCHANGED <<site_name_filter, sites, siteids, next_site, devices,
                   device_metrics_dict, edge_devices, failed_calls,
                   resolverVars>>

(***************************************************************************)
(* metrics = device_metrics_dict + edge_metrics_dict, the success status   *)
(* line appended, the whole printed.                                       *)
(***************************************************************************)
MetricsStatusFirst(device_lines, edge_lines) ==
    <<StatusLine(1)>> \o device_lines \o edge_lines

Metrics(device_lines, edge_lines) ==
    Append(device_lines \o edge_lines, StatusLine(1))

PrintMetrics ==
    /\ pc = "print"
    /\ stdout' = stdout \o Metrics(device_metrics_dict, edge_metrics_dict)
    /\ Goto(NextStatement(pc))
    /\ UNCHANGED <<site_name_filter, sites, siteids, next_site, devices,
                   device_metrics_dict, edge_devices, edge_metrics_dict, exc,
                   failed_calls, resolverVars>>

Next ==
    \/ GetSites
    \/ GetDevicesOfSite
    \/ GetDevicesReturn
    \/ GetDeviceMetrics
    \/ GetEdgeStats
    \/ BuildEdgeMetrics
    \/ PrintMetrics

Spec == Init /\ [][Next]_vars

(***************************************************************************)
(* get_value_from_path on its own: one call on a record and a path.        *)
(***************************************************************************)
ResolveRecords ==
    DeviceRecords \o EdgeRecords \o
    << JNull, JNum(7), JStr("Ap1"), JList(<<DevFull>>),
       JDict("name" :> JNull @@ "status" :> JBool(FALSE)
             @@ "uptime" :> JList(<<>>) @@ "model" :> JDict(<<>>)),
       JDict("port_stat" :> JDict("eth0" :> JNum(1))
             @@ "radio_stat" :> JStr("Connected")
             @@ "sensor_stat" :> JList(<<>>)) >>

SchemaPaths(schema) == {schema[i].path : i \in 1..Len(schema)}
DetailPaths(details) == {details[i][2] : i \in 1..Len(details)}

ResolvePaths ==
    {<<"name">>, <<"port_stat">>, <<"port_stat", "eth0">>}
    \cup SchemaPaths(DeviceSchema) \cup SchemaPaths(EdgeSchema)
    \cup DetailPaths(DeviceDetails) \cup DetailPaths(EdgeDetails)

InitResolve ==
    /\ pc = "get_value_from_path"
    /\ stages = <<>>
    /\ site_name_filter = {}
    /\ sites = <<>>
    /\ siteids = <<>>
    /\ next_site = 1
    /\ devices = <<>>
    /\ device_metrics_dict = <<>>
    /\ edge_devices = <<>>
    /\ edge_metrics_dict = <<>>
    /\ stdout = <<>>
    /\ exc = "none"
    /\ failed_calls = {}
    /\ \E i \in 1..Len(ResolveRecords) : dictionary = ResolveRecords[i]
    /\ parts \in ResolvePaths
    /\ resolved = Unset

Resolve ==
    /\ pc = "get_value_from_path"
    /\ resolved = Unset
    /\ resolved' = get_value_from_path(dictionary, parts)
    /\ UNCHANGED <<mainVars, dictionary, parts>>

NextResolve == Resolve

SpecResolve == InitResolve /\ [][NextResolve]_vars

(***************************************************************************)
(* The edge builder on its own: get_edge_metrics after its fetch, on edge  *)
(* records whose PS and Fan redundancy states are each one of the          *)
(* spellings below or missing.  The run is one whose organisation has no   *)
(* matched site.                                                           *)
(***************************************************************************)
NoState == "(no state)"

StateSpellings ==
    <<"FullyRedundant", "fullyredundant", "FULLYREDUNDANT", "Degraded",
      NoState>>

Redundancies(ps, fan) ==
    JDict([k \in {c \in {"PS", "Fan"} :
                     (IF c = "PS" THEN ps ELSE fan) # NoState} |->
              State(IF k = "PS" THEN ps ELSE fan)])

EdgeWithStates(ps, fan) ==
    JDict(("sensor_stat" :>
              JDict("temperatures" :> JDict("CPU1" :> Degree(40))
                    @@ "redundancies" :> Redundancies(ps, fan)))
          @@ EdgeFullFields)

InitRedundancy ==
    /\ pc = "build_edge_metrics"
    /\ stages = <<"get_sites", "get_devices", "get_device_metrics",
                  "get_edge_metrics", "build_edge_metrics">>
    /\ site_name_filter \in SiteFilters
    /\ sites = <<>>
    /\ siteids = <<>>
    /\ next_site = 1
    /\ devices = <<>>
    /\ device_metrics_dict = get_device_metrics(<<>>).v
    /\ \E n \in 1..MaxEdges :
          \E ps, fan \in [1..n -> 1..Len(StateSpellings)] :
             edge_devices =
                [k \in 1..n |-> EdgeWithStates(StateSpellings[ps[k]],
                                               StateSpellings[fan[k]])]
    /\ edge_metrics_dict = <<>>
    /\ stdout = <<>>
    /\ exc = "none"
    /\ failed_calls = {}
    /\ dictionary = JNull
    /\ parts = <<>>
    /\ resolved = Unset

NextRedundancy ==
    \/ BuildEdgeMetrics
    \/ PrintMetrics

SpecRedundancy == InitRedundancy /\ [][NextRedundancy]_vars

(***************************************************************************)
(*                              PROPERTIES                                 *)
(***************************************************************************)
IsStatusLine(line) ==
    /\ line.kind = "raw"
    /\ line.name \in {"mist_exporter_status 0", "mist_exporter_status 1"}

StatusPositions(out) == {i \in 1..Len(out) : IsStatusLine(out[i])}

Finished == pc \in {"done", "failed"}

Entered(stage) == \E i \in 1..Len(stages) : stages[i] = stage

(***************************************************************************)
(* C1: at most one status line is ever on standard output, a status line   *)
(* is the last line written, and a finished run has written exactly one.   *)
(***************************************************************************)
OneStatusLineLast ==
    /\ Cardinality(StatusPositions(stdout)) <= 1
    /\ StatusPositions(stdout) \subseteq {Len(stdout)}
    /\ Finished => StatusPositions(stdout) = {Len(stdout)} /\ Len(stdout) >= 1

SuccessfulRunPrinted ==
    /\ pc = "done"
    /\ Len(stdout) > 5
    /\ stdout[Len(stdout)] = StatusLine(1)

(***************************************************************************)
(* C2: once an API call has come back failed (transport error, non-200     *)
(* status or unparsable body) the run is failed and standard output is     *)
(* the one line mist_exporter_status 0.                                    *)
(***************************************************************************)
FailedCallPrintsOnlyStatus0 ==
    failed_calls # {} => pc = "failed" /\ stdout = <<StatusLine(0)>>

EdgeCallFailedAfterDeviceBuild ==
    /\ failed_calls = {"edges"}
    /\ Len(device_metrics_dict) > 3
    /\ stdout = <<StatusLine(0)>>

(***************************************************************************)
(* C10 as claimed: no metric line, device or edge, is built before the     *)
(* edge-stats fetch has completed, and nothing is printed before all       *)
(* building has finished.                                                  *)
(***************************************************************************)
NoLineBuiltBeforeEdgeFetch ==
    /\ (device_metrics_dict # <<>> \/ edge_metrics_dict # <<>>)
          => Entered("build_edge_metrics")
    /\ stdout # <<>> => Finished

(***************************************************************************)
(* C10 as amended: the run passes through fetching sites, fetching         *)
(* devices, building device metrics, fetching edges, building edge         *)
(* metrics, emitting, done, in this order, and failed is the only other    *)
(* exit; device lines are built only after the device fetches, edge lines  *)
(* only after the edge fetch, and nothing is printed before all building   *)
(* has finished.                                                           *)
(***************************************************************************)
StageOrder ==
    <<"get_sites", "get_devices", "get_device_metrics", "get_edge_metrics",
      "build_edge_metrics", "print", "done">>

IsPrefix(a, b) == Len(a) <= Len(b) /\ a = SubSeq(b, 1, Len(a))

StagesInCodeOrder ==
    /\ \/ IsPrefix(stages, StageOrder)
       \/ /\ stages[Len(stages)] = "failed"
          /\ IsPrefix(SubSeq(stages, 1, Len(stages) - 1), StageOrder)
          /\ Len(stages) <= Len(StageOrder)
    /\ pc = stages[Len(stages)]
    /\ device_metrics_dict # <<>> => Entered("get_edge_metrics")
    /\ edge_metrics_dict # <<>> => Entered("print")
    /\ Entered("get_device_metrics") =>
          next_site = Len(siteids) + 1
    /\ stdout # <<>> => Finished
    /\ pc = "done" => Len(device_metrics_dict) >= 3
                      /\ Len(edge_metrics_dict) >= 2

DeviceLinesBuiltBeforeEdgeFetch ==
    /\ pc = "get_edge_metrics"
    /\ Len(device_metrics_dict) > 3
    /\ edge_devices = <<>>
    /\ stdout = <<>>

(***************************************************************************)
(* The layout of a builder's list, stated apart from the builders: a       *)
(* record whose name is the empty string has no lines, every other record  *)
(* has a block of one info line and one line per schema entry, the blocks  *)
(* in the order of the records, after `base` leading lines.                *)
(***************************************************************************)
RECURSIVE Traversable(_, _)
Traversable(record, path) ==
    /\ record.t = "dict"
    /\ path[1] \in DOMAIN record.d
    /\ Len(path) = 1 \/ Traversable(record.d[path[1]], Tail2(path))

RECURSIVE Leaf(_, _)
Leaf(record, path) ==
    IF Len(path) = 1 THEN record.d[path[1]]
    ELSE Leaf(record.d[path[1]], Tail2(path))

HasEmptyName(record) ==
    Traversable(record, <<"name">>) /\ Str(Leaf(record, <<"name">>)) = ""

HasNoName(record) == ~Traversable(record, <<"name">>)

BlockLen(schema) == 1 + Len(schema)

BlocksBefore(devs, k) ==
    Cardinality({j \in 1..(k - 1) : ~HasEmptyName(devs[j])})

LinePos(devs, base, schema, k, i) ==
    base + BlocksBefore(devs, k) * BlockLen(schema) + 1 + i

DevicesBuilt == device_metrics_dict # <<>>
EdgesBuilt == edge_metrics_dict # <<>>

DeviceLine(k, i) ==
    device_metrics_dict[LinePos(devices, 1, DeviceSchema, k, i)]
EdgeLine(k, i) ==
    edge_metrics_dict[LinePos(edge_devices, 0, EdgeSchema, k, i)]

DeviceLayout ==
    Len(device_metrics_dict) =
        1 + BlocksBefore(devices, Len(devices) + 1) * BlockLen(DeviceSchema) + 2
EdgeLayout ==
    Len(edge_metrics_dict) =
        BlocksBefore(edge_devices, Len(edge_devices) + 1) * BlockLen(EdgeSchema)
        + 2

LabelValue(line, key) ==
    {line.labels[n][2] : n \in {m \in 1..Len(line.labels) :
                                   line.labels[m][1] = key}}

(***************************************************************************)
(* C3: every schema entry whose source value is absent in the record has   *)
(* its line with value 0, and a missing field does not fail the run: a     *)
(* run whose API calls all succeeded and that reached the builders does    *)
(* not end failed.                                                         *)
(***************************************************************************)
AbsentFieldRendersZero ==
    /\ DevicesBuilt =>
          /\ DeviceLayout
          /\ \A k \in 1..Len(devices) : \A i \in 1..Len(DeviceSchema) :
                (~HasEmptyName(devices[k])
                 /\ ~Traversable(devices[k], DeviceSchema[i].path))
                => DeviceLine(k, i).value = "0"
    /\ EdgesBuilt =>
          /\ EdgeLayout
          /\ \A k \in 1..Len(edge_devices) : \A i \in 1..Len(EdgeSchema) :
                (~HasEmptyName(edge_devices[k])
                 /\ ~Traversable(edge_devices[k], EdgeSchema[i].path))
                => EdgeLine(k, i).value = "0"
    /\ (Entered("get_device_metrics") /\ failed_calls = {}) => pc # "failed"

(***************************************************************************)
(* C4: a record without a name key or with the empty name is skipped: it   *)
(* has no lines, and no line has a hostname label that is empty or the     *)
(* upper-cased absent marker.                                              *)
(***************************************************************************)
Named(devs) ==
    Cardinality({k \in 1..Len(devs) :
                    ~HasNoName(devs[k]) /\ ~HasEmptyName(devs[k])})

BadHostname(lines) ==
    \E n \in 1..Len(lines) :
        LabelValue(lines[n], "hostname") \cap {"", Upper(NotFound)} # {}

NamelessEntitiesSkipped ==
    /\ DevicesBuilt =>
          /\ Len(device_metrics_dict) =
                1 + Named(devices) * BlockLen(DeviceSchema) + 2
          /\ ~BadHostname(device_metrics_dict)
    /\ EdgesBuilt =>
          /\ Len(edge_metrics_dict) =
                Named(edge_devices) * BlockLen(EdgeSchema) + 2
          /\ ~BadHostname(edge_metrics_dict)

AbsentCount(record, schema) ==
    Cardinality({i \in 1..Len(schema) : ~Traversable(record, schema[i].path)})

ResolverNeverRaises ==
    resolved # Unset =>
       /\ resolved.exc = "none"
       /\ IF Traversable(dictionary, parts)
          THEN /\ resolved.v = Lower(Str(Leaf(dictionary, parts)))
               /\ resolved.v # NotFound
          ELSE resolved.v = NotFound

(***************************************************************************)
(* C7: the PSU and the fan redundancy line of an edge have value 0 when    *)
(* the state is fullyredundant, 1 when the state is present with another   *)
(* value and 0 when the state is absent, and carry the state string as     *)
(* the redundancy label.                                                   *)
(***************************************************************************)
RedundancyEntries == {i \in 1..Len(EdgeSchema) : EdgeSchema[i].kind # "path"}

RedundancyValueByState ==
    EdgesBuilt =>
       /\ EdgeLayout
       /\ \A k \in 1..Len(edge_devices) : \A i \in RedundancyEntries :
             ~HasEmptyName(edge_devices[k]) =>
                IF Traversable(edge_devices[k], EdgeSchema[i].path)
                THEN LET state ==
                            Lower(Str(Leaf(edge_devices[k], EdgeSchema[i].path)))
                     IN  /\ EdgeLine(k, i).value =
                               (IF state = "fullyredundant" THEN "0" ELSE "1")
                         /\ LabelValue(EdgeLine(k, i), "redundancy") = {state}
                ELSE EdgeLine(k, i).value = "0"

(***************************************************************************)
(* C8: the last two lines of a builder's list are the total-count line,    *)
(* whose value is the number of entities, and the metric-total-count line, *)
(* whose value is the number of metric lines before them; a comment line   *)
(* is not counted.                                                         *)
(***************************************************************************)
MetricLines(lines, n) ==
    Cardinality({j \in 1..n : lines[j].kind = "metric"})

SummaryOf(lines, entities, total_name, metric_total_name) ==
    LET n == Len(lines)
    IN  /\ n >= 2
        /\ lines[n - 1].name = total_name
        /\ lines[n - 1].value = ToString(Len(entities))
        /\ lines[n].name = metric_total_name
        /\ lines[n].value = ToString(MetricLines(lines, n - 2))

SummaryCountsMetricLines ==
    /\ DevicesBuilt =>
          SummaryOf(device_metrics_dict, devices, "mist_device_total_count",
                    "mist_device_metric_total_count")
    /\ EdgesBuilt =>
          SummaryOf(edge_metrics_dict, edge_devices, "mist_edge_total_count",
                    "mist_edge_metric_total_count")

(***************************************************************************)
(* C9 as claimed: the line of a schema entry has the entry's metric name   *)
(* and exactly the label keys hostname and the entry's extra labels,       *)
(* whether the field is present or absent.                                 *)
(***************************************************************************)
ExtraKeys(entry) ==
    IF entry.kind = "path"
    THEN {Lower(entry.labels[n][1]) : n \in 1..Len(entry.labels)}
    ELSE {"redundancy"}

SameSeries(line, entry, more) ==
    /\ line.name = entry.name
    /\ Keys(line.labels) = {"hostname"} \cup ExtraKeys(entry) \cup more

DeviceSeriesContinue ==
    DevicesBuilt =>
       /\ DeviceLayout
       /\ \A k \in 1..Len(devices) : \A i \in 1..Len(DeviceSchema) :
             ~HasEmptyName(devices[k]) =>
                SameSeries(DeviceLine(k, i), DeviceSchema[i], {})

SameLabelKeysPresentOrAbsent ==
    /\ DeviceSeriesContinue
    /\ EdgesBuilt =>
          /\ EdgeLayout
          /\ \A k \in 1..Len(edge_devices) : \A i \in 1..Len(EdgeSchema) :
                ~HasEmptyName(edge_devices[k]) =>
                   SameSeries(EdgeLine(k, i), EdgeSchema[i], {})

(***************************************************************************)
(* C9 as amended: the metric name is the same whether the field is present *)
(* or absent; the label keys are hostname and the entry's extra labels in  *)
(* the device builder, and in the edge builder the same plus an error      *)
(* label exactly on the line of a path entry whose field is absent.        *)
(***************************************************************************)
ErrorKey(record, entry) ==
    IF entry.kind = "path" /\ ~Traversable(record, entry.path)
    THEN {"error"}
    ELSE {}

LabelKeysUpToEdgeErrorLabel ==
    /\ DeviceSeriesContinue
    /\ EdgesBuilt =>
          /\ EdgeLayout
          /\ \A k \in 1..Len(edge_devices) : \A i \in 1..Len(EdgeSchema) :
                ~HasEmptyName(edge_devices[k]) =>
                   SameSeries(EdgeLine(k, i), EdgeSchema[i],
                              ErrorKey(edge_devices[k], EdgeSchema[i]))

AbsentFieldsInBothBuilders ==
    /\ pc = "done"
    /\ \E k \in 1..Len(devices) :
          /\ ~HasEmptyName(devices[k])
          /\ AbsentCount(devices[k], DeviceSchema) \in 1..9
    /\ \E k \in 1..Len(edge_devices) :
          /\ ~HasEmptyName(edge_devices[k])
          /\ \E i \in 1..Len(EdgeSchema) :
                "error" \in Keys(EdgeLine(k, i).labels)
          /\ \E i \in 1..Len(EdgeSchema) :
                "error" \notin Keys(EdgeLine(k, i).labels)

(***************************************************************************)
(* C11: the PSU and the fan redundancy line of an edge whose state is the  *)
(* fully-redundant token in any letter case has value 0, the value of the  *)
(* lowercase token: never 1 and never the state string passed through.     *)
(***************************************************************************)
FullyRedundantTokens == {"FullyRedundant", "fullyredundant", "FULLYREDUNDANT"}

IsFullyRedundant(record, path) ==
    /\ Traversable(record, path)
    /\ Leaf(record, path).t = "str"
    /\ Leaf(record, path).s \in FullyRedundantTokens

FullyRedundantAnyCaseIsZero ==
    EdgesBuilt =>
       /\ EdgeLayout
       /\ \A k \in 1..Len(edge_devices) : \A i \in RedundancyEntries :
             (~HasEmptyName(edge_devices[k])
              /\ IsFullyRedundant(edge_devices[k], EdgeSchema[i].path))
             => EdgeLine(k, i).value = "0"

HasState(record, path, token) ==
    Traversable(record, path) /\ Leaf(record, path) = JStr(token)

MixedAndUpperCaseStatesBuilt ==
    /\ pc = "done"
    /\ \E k \in 1..Len(edge_devices) :
          /\ HasState(edge_devices[k], PSPath, "FullyRedundant")
          /\ HasState(edge_devices[k], FanPath, "FULLYREDUNDANT")
          /\ \A i \in RedundancyEntries : EdgeLine(k, i).value = "0"
    /\ \E k \in 1..Len(edge_devices) :
          /\ HasState(edge_devices[k], PSPath, "fullyredundant")
          /\ \E i \in RedundancyEntries : EdgeLine(k, i).value = "0"
====
